---- MODULE Spec2Model ----
(***************************************************************************)
(* Model of the conversational workflow of backend/agent.py: the four      *)
(* nodes intent, geo_query, location_helper and flood_vulnerability, the   *)
(* graph that sequences them, and the two drivers that start a turn        *)
(* (agent.py __main__ and the /api/agent endpoint of backend/main.py).     *)
(*                                                                         *)
(* Text that the code parses (the replies of the completion provider) is   *)
(* a sequence of one-character strings, so that strip, lower, startswith,  *)
(* split and the substring test are computed as Python computes them.      *)
(* A Python value is a tagged record: None, a text, a number, an object.   *)
(* A dict is a function whose DOMAIN is the set of keys that are present.  *)
(* Coordinates are in units of 1e-4 degree, depths in units of 1/100.      *)
(*                                                                         *)
(* The graph runs one node at a time: StateGraph(AgentState) keeps one     *)
(* channel per key that AgentState declares, so of the dict a node returns *)
(* only those keys are written to the state the next node receives; the    *)
(* route "END" out of intent ends the turn, and an exception that leaves a *)
(* node leaves graph.invoke.                                               *)
(*                                                                         *)
(* Four specifications: Spec is one turn of the graph; SpecServed is       *)
(* several turns of /api/agent in flight with their nodes interleaved;     *)
(* SpecEE is the Earth Engine service and the two /api/earth-engine        *)
(* endpoints of main.py that call it; SpecAI is AIService.                 *)
(***************************************************************************)
EXTENDS Integers, Sequences, FiniteSets, TLC

VARIABLES
    request,      \* what the driver was given for this turn (never changes)
    state,        \* the AgentState dict threaded through the graph
    pc,           \* the node that runs next, or "END", or "raised"
    trace,        \* the nodes that have run in this turn, in order
    calls,        \* number of calls made to each external collaborator
    last,         \* the last node execution: its input state, the external outcome
                  \* and, unless it raised, the dict the node returned
    seen,         \* what the external collaborators answered earlier in the turn
    turns,        \* the turns the server has in flight, each with its own state dict
    ee,           \* the EarthEngineService object of geospatial_service.ee_service,
                  \* with the calls of its two analysis methods and the requests
                  \* it sent to the platform
    response,     \* the last answer of an /api/earth-engine endpoint or of the service
    ai            \* the AIService object and the last answer of process_natural_query

vars == <<request, state, pc, trace, calls, last, seen, turns, ee, response, ai>>

\* what a single turn of the graph leaves alone
server == <<turns, ee, response, ai>>

-----------------------------------------------------------------------------
(* Bounds of the model *)

\* most lines in one reply of the extractor
MaxLines == 2

-----------------------------------------------------------------------------
(* Python values *)

None == [t |-> "None"]
Str(s) == [t |-> "str", v |-> s]
Num(n) == [t |-> "num", v |-> n]

\* bool(v): None, the empty text and 0 are false
Truthy(v) ==
    CASE v.t = "None" -> FALSE
      [] v.t = "str"  -> v.v # <<>>
      [] v.t = "num"  -> v.v # 0
      [] OTHER        -> TRUE

\* d.get(k) and d.get(k, default)
Get(d, k) == IF k \in DOMAIN d THEN d[k] ELSE None
GetOr(d, k, default) == IF k \in DOMAIN d THEN d[k] ELSE default

\* {**d, **upd}
Merge(d, upd) ==
    [k \in (DOMAIN d) \cup (DOMAIN upd) |-> IF k \in DOMAIN upd THEN upd[k] ELSE d[k]]

-----------------------------------------------------------------------------
(* Text: sequences of characters, and the str methods the nodes use *)

Whitespace == {" ", "\n", "\t"}

UpperCase == <<"A","B","C","D","E","F","G","H","I","J","K","L","M",
               "N","O","P","Q","R","S","T","U","V","W","X","Y","Z">>
LowerCase == <<"a","b","c","d","e","f","g","h","i","j","k","l","m",
               "n","o","p","q","r","s","t","u","v","w","x","y","z">>

LowerChar(c) ==
    IF \E i \in DOMAIN UpperCase : UpperCase[i] = c
    THEN LowerCase[CHOOSE i \in DOMAIN UpperCase : UpperCase[i] = c]
    ELSE c

\* s.lower()
Lower(s) == [i \in DOMAIN s |-> LowerChar(s[i])]

\* s.strip()
Strip(s) ==
    LET idx == {i \in DOMAIN s : s[i] \notin Whitespace}
    IN  IF idx = {} THEN <<>>
        ELSE LET lo == CHOOSE i \in idx : \A j \in idx : i <= j
                 hi == CHOOSE i \in idx : \A j \in idx : i >= j
             IN  SubSeq(s, lo, hi)

\* s.startswith(p)
StartsWith(s, p) == Len(p) <= Len(s) /\ SubSeq(s, 1, Len(p)) = p

\* p in s
Contains(s, p) ==
    \E i \in 1..(Len(s) - Len(p) + 1) : SubSeq(s, i, i + Len(p) - 1) = p

\* s.split(sep) for a one-character separator
RECURSIVE Split(_, _)
Split(s, sep) ==
    IF \A i \in DOMAIN s : s[i] # sep THEN <<s>>
    ELSE LET at == CHOOSE i \in DOMAIN s :
                       s[i] = sep /\ \A j \in 1..(i - 1) : s[j] # sep
         IN  <<SubSeq(s, 1, at - 1)>> \o Split(SubSeq(s, at + 1, Len(s)), sep)

\* s.split(sep, 1)[1], for s that contains sep
AfterFirst(s, sep) ==
    LET at == CHOOSE i \in DOMAIN s :
                  s[i] = sep /\ \A j \in 1..(i - 1) : s[j] # sep
    IN  SubSeq(s, at + 1, Len(s))

\* the literals of agent.py
T_normal       == <<"n","o","r","m","a","l">>
T_query        == <<"q","u","e","r","y">>
T_ASK_LOCATION == <<"A","S","K","_","L","O","C","A","T","I","O","N">>
T_ASK_ANALYSIS == <<"A","S","K","_","A","N","A","L","Y","S","I","S">>
T_location     == <<"l","o","c","a","t","i","o","n",":">>
T_analysis     == <<"a","n","a","l","y","s","i","s",":">>
T_reply        == <<"r","e","p","l","y",":">>

-----------------------------------------------------------------------------
(* The drivers: the state a turn starts from *)

Keys == {"input", "intent", "location", "analysis", "lat", "lon",
         "final_result", "map_object", "map_data"}

\* the keys that the AgentState schema declares: the graph has a channel for
\* each of them and for no other key
AgentStateKeys == {"input", "intent", "location", "analysis", "lat", "lon",
                   "final_result", "map_object"}

\* graph.invoke(d): the keys of the input that the schema declares are
\* written to the channels, the others are dropped
graph_input(d) == [k \in (DOMAIN d \cap AgentStateKeys) |-> d[k]]

\* the state after a node returned the dict ret: the keys of ret that the
\* schema declares overwrite their channels, the others are dropped
graph_update(st, ret) ==
    [k \in ((DOMAIN st \cup DOMAIN ret) \cap AgentStateKeys) |->
        IF k \in DOMAIN ret THEN ret[k] ELSE st[k]]

T_Goa  == <<"G","o","a">>
T_hi   == <<"h","i">>
T_ask  == <<"G","o","a","?">>

\* the coordinates a client sends (Chennai), in 1e-4 degree
ClientCoord == <<130827, 802707>>


Dict(d) == [t |-> "dict", v |-> d]

\* the "location" member of the JSON body posted to /api/agent
RequestLocations ==
    { None,
      Str(T_Goa),
      Dict([name |-> Str(T_Goa)]),
      Dict([name |-> Str(T_Goa), lat |-> Num(ClientCoord[1]), lng |-> Num(ClientCoord[2])]),
      Dict([lat |-> Num(0), lng |-> Num(ClientCoord[2])]),
      Dict([lat |-> Num(ClientCoord[1]), lng |-> Num(ClientCoord[2])]) }

Requests ==
    [driver : {"main"}, input : {T_hi}, location : {None}]
    \cup [driver : {"endpoint"}, input : {T_ask}, location : RequestLocations]

\* agent.py __main__: graph.invoke({"input": user_input})
main_state(req) == [k \in {"input"} |-> Str(req.input)]

\* an endpoint that reads the two coordinates from each other's member
agent_endpoint_state_swapped(req) ==
    LET location == IF Truthy(req.location) THEN req.location ELSE Dict(<<>>)
        isdict   == location.t = "dict"
    IN  [k \in Keys |->
            CASE k = "input"    -> Str(req.input)
              [] k = "location" -> IF isdict THEN Get(location.v, "name") ELSE location
              [] k = "lat"      -> IF isdict THEN Get(location.v, "lng") ELSE None
              [] k = "lon"      -> IF isdict THEN Get(location.v, "lat") ELSE None
              [] OTHER          -> None]

\* main.py agent_endpoint: the state built from the request body
agent_endpoint_state(req) ==
    LET location == IF Truthy(req.location) THEN req.location ELSE Dict(<<>>)
        isdict   == location.t = "dict"
    IN  [k \in Keys |->
            CASE k = "input"    -> Str(req.input)
              [] k = "location" -> IF isdict THEN Get(location.v, "name") ELSE location
              [] k = "lat"      -> IF isdict THEN Get(location.v, "lat") ELSE None
              [] k = "lon"      -> IF isdict THEN Get(location.v, "lng") ELSE None
              [] OTHER          -> None]

InitialState(req) ==
    IF req.driver = "main" THEN main_state(req) ELSE agent_endpoint_state(req)

-----------------------------------------------------------------------------
(* The completion provider *)

\* The provider fails
Raise == [t |-> "raise"]

\* A reply is a plain string, a dict with a 'text' key, or a message object
\* with a content attribute
Shapes == {"str", "dict", "message"}
Reply(shape, text) == [t |-> "reply", shape |-> shape, text |-> text]

\* repr(s) without its quotes: a newline or tab prints as a backslash and a letter
RECURSIVE Escaped(_)
Escaped(s) ==
    IF s = <<>> THEN <<>>
    ELSE (CASE Head(s) = "\n" -> <<"\\", "n">>
            [] Head(s) = "\t" -> <<"\\", "t">>
            [] OTHER          -> <<Head(s)>>) \o Escaped(Tail(s))

\* str(result): a string is itself; a message prints as its fields,
\* content='...' first; a dict prints as {'text': '...'}
StrOf(result) ==
    CASE result.shape = "str" -> result.text
      [] result.shape = "message" ->
            <<"c","o","n","t","e","n","t","=","'">> \o Escaped(result.text)
            \o <<"'"," ","a","d","d","i","t","i","o","n","a","l","_",
                 "k","w","a","r","g","s","=","{","}">>
      [] result.shape = "dict" ->
            <<"{","'","t","e","x","t","'",":"," ","'">> \o Escaped(result.text)
            \o <<"'","}">>

ClassifierTexts ==
    { T_normal,
      <<" ">> \o <<"N">> \o SubSeq(T_normal, 2, 6) \o <<" ">>,
      <<"N","O","R","M","A","L">>,
      <<"\t">> \o T_normal \o <<"\n">>,
      T_query,
      <<"s","u","r","e",":"," ">> \o T_query,
      T_normal \o <<".">>,
      <<>> }

\* every text as a plain string; the two literals also in the other two shapes
ClassifierOutcomes ==
    {Raise} \cup {Reply("str", tx) : tx \in ClassifierTexts}
            \cup {Reply(sh, tx) : sh \in {"dict", "message"}, tx \in {T_normal, T_query}}

-----------------------------------------------------------------------------
(* intent_node *)

intent_text(result) ==
    LET text == IF result.shape = "dict" THEN result.text ELSE StrOf(result)
    IN  IF text # <<>> THEN Strip(text) ELSE <<>>

\* a node that returns only the field it computed
intent_node_partial(st, result) ==
    LET text   == intent_text(result)
    IN  [intent |-> IF text \in {T_normal, T_query} THEN Str(text) ELSE None]

intent_node(st, result) ==
    LET text   == intent_text(result)
        intent == IF text \in {T_normal, T_query} THEN Str(text) ELSE None
    IN  Merge(st, [intent |-> intent])

\* a routing that continues only for a recognised "query"
route_unless_query(st) ==
    IF st["intent"] = Str(T_query) THEN "geo_query" ELSE "END"

\* the conditional edge out of intent
route_after_intent(st) ==
    IF st["intent"] = Str(T_normal) THEN "END" ELSE "geo_query"

-----------------------------------------------------------------------------
(* Replies of the extractor: up to MaxLines lines joined by newlines *)

T_a_b   == <<"a",":","b">>
T_flood == <<"f","l","o","o","d"," ","r","i","s","k">>
T_fire  == <<"f","i","r","e">>

\* a labelled line: padding, label, gap, value, padding
LabelLine(p) == p[1] \o p[2] \o p[3] \o p[4] \o p[5]

LocationParams ==
    { << <<>>,         <<"L">> \o SubSeq(T_location, 2, 9),           <<" ">>,  T_Goa,  <<>> >>,
      << <<" ", " ">>, <<"L","O","C","A","T","I","O","N",":">>,       <<"\t">>, T_a_b,  <<" ", " ">> >> }

AnalysisParams ==
    { << <<>>,    <<"A">> \o SubSeq(T_analysis, 2, 9),          <<" ">>,      T_flood, <<>> >>,
      << <<" ">>, <<"A","N","A","L","Y","S","I","S",":">>,      <<" ", " ">>, T_fire,  <<"\t">> >> }

OtherLines ==
    { T_Goa,                                                     \* a bare place name
      T_ASK_LOCATION,
      <<"x"," ">> \o T_ASK_ANALYSIS \o <<".">>,                  \* sentinel inside prose
      T_reply \o <<" ","o","k">>,
      <<"L">> \o SubSeq(T_location, 2, 9),                       \* "Location:" and nothing
      <<"t","h","e"," ">> \o T_analysis \o <<" ","x">> }

Lines ==
    {LabelLine(p) : p \in LocationParams} \cup {LabelLine(p) : p \in AnalysisParams}
    \cup OtherLines

\* "\n".join(ls)
RECURSIVE Join(_)
Join(ls) ==
    IF Len(ls) = 0 THEN <<>>
    ELSE IF Len(ls) = 1 THEN ls[1]
    ELSE ls[1] \o <<"\n">> \o Join(Tail(ls))

ExtractorTexts ==
    UNION { {Join(ls) : ls \in [1..n -> Lines]} : n \in 1..MaxLines }

\* every text as a plain string and as the content of a message object
ExtractorOutcomes ==
    {Raise} \cup {Reply(sh, tx) : sh \in {"str", "message"}, tx \in ExtractorTexts}

-----------------------------------------------------------------------------
(* geo_query_node *)

\* result.content if hasattr(result, 'content') else str(result), stripped
geo_answer(result) ==
    LET answer == IF result.shape = "message" THEN result.text ELSE StrOf(result)
    IN  IF answer # <<>> THEN Strip(answer) ELSE <<>>

\* a sentinel test that accepts the sentinel only as the whole reply
asks_clarification_exact(answer) ==
    answer \in {T_ASK_LOCATION, T_ASK_ANALYSIS}

\* the two sentinel tests
asks_clarification(answer) ==
    Contains(answer, T_ASK_LOCATION) \/ Contains(answer, T_ASK_ANALYSIS)

\* the loop body with the labels compared without lower()
scan_line_case_sensitive(acc, rawline) ==
    LET line == Strip(rawline)
    IN  IF StartsWith(line, T_location)
        THEN [acc EXCEPT !.location = Str(Strip(AfterFirst(line, ":")))]
        ELSE IF StartsWith(line, T_analysis)
        THEN [acc EXCEPT !.analysis = Str(Strip(AfterFirst(line, ":")))]
        ELSE IF /\ ~Truthy(acc.location)
                /\ line # <<>>
                /\ ~Contains(Lower(line), T_analysis)
                /\ ~Contains(Lower(line), T_reply)
        THEN [acc EXCEPT !.location = Str(line)]
        ELSE acc

\* one iteration of the loop over the lines: acc = [location, analysis]
scan_line(acc, rawline) ==
    LET line == Strip(rawline)
    IN  IF StartsWith(Lower(line), T_location)
        THEN [acc EXCEPT !.location = Str(Strip(AfterFirst(line, ":")))]
        ELSE IF StartsWith(Lower(line), T_analysis)
        THEN [acc EXCEPT !.analysis = Str(Strip(AfterFirst(line, ":")))]
        ELSE IF /\ ~Truthy(acc.location)
                /\ line # <<>>
                /\ ~Contains(Lower(line), T_analysis)
                /\ ~Contains(Lower(line), T_reply)
        THEN [acc EXCEPT !.location = Str(line)]
        ELSE acc

RECURSIVE scan_lines(_, _)
scan_lines(acc, lines) ==
    IF lines = <<>> THEN acc
    ELSE scan_lines(scan_line(acc, Head(lines)), Tail(lines))

geo_query_node(st, result) ==
    LET answer == geo_answer(result)
    IN  IF asks_clarification(answer)
        THEN Merge(st, <<>>)
        ELSE Merge(st, scan_lines([location |-> None, analysis |-> None],
                                  Split(answer, "\n")))

-----------------------------------------------------------------------------
(* location_helper_node and the geocoder *)

NotFound == [t |-> "notfound"]
Found(lat, lon) == [t |-> "found", lat |-> lat, lon |-> lon]

GeocoderOutcomes == {Raise, NotFound, Found(152993, 741240)}

\* the geocoder is called only when the state has a (truthy) location
calls_geocoder(st) == Truthy(Get(st, "location"))

\* a resolver that clears the coordinates when it finds none
location_helper_node_clears(st, geo) ==
    IF ~Truthy(Get(st, "location")) THEN Merge(st, [lat |-> None, lon |-> None])
    ELSE IF geo.t = "found"
         THEN Merge(st, [lat |-> Num(geo.lat), lon |-> Num(geo.lon)])
         ELSE Merge(st, [lat |-> None, lon |-> None])

\* a resolver that stores the latitude and forgets the longitude
location_helper_node_lat_only(st, geo) ==
    IF ~Truthy(Get(st, "location")) THEN st
    ELSE IF geo.t = "found"
         THEN Merge(st, [lat |-> Num(geo.lat)])
         ELSE st

location_helper_node(st, geo) ==
    IF ~Truthy(Get(st, "location")) THEN st
    ELSE IF geo.t = "found"
         THEN Merge(st, [lat |-> Num(geo.lat), lon |-> Num(geo.lon)])
         ELSE st

-----------------------------------------------------------------------------
(* flood_vulnerability: the producer that calls the geospatial platform *)

\* A text built by an f-string is the sequence of its pieces
Lit(s) == [t |-> "lit", v |-> s]
Fmt(n, spec) == [t |-> "fmt", v |-> n, spec |-> spec]
Text(pieces) == [t |-> "text", v |-> pieces]

\* The platform's behaviour during one call of flood_vulnerability:
\*   failAt  the first request that fails ("none": all succeed)
\*           ("url": the producer succeeds and the lookup of a layer's tile
\*           URL in flood_vulnerability_node fails)
\*   refail  whether adding the marker layer in the fallback fails too
\*   stats   the dict that reduceRegion(...).getInfo() returns (depth in 1/100)
\*   err     the message of the error raised
Errors == {"Quota exceeded", "Earth Engine client library not initialized"}

OkStats == { <<>>, [depth |-> None], [depth |-> Num(5)], [depth |-> Num(20)],
             [depth |-> Num(30)], [depth |-> Num(50)], [depth |-> Num(60)] }

PlatformOutcomes ==
    [failAt : {"none"}, refail : {FALSE}, stats : OkStats, err : {"Quota exceeded"}]
    \cup [failAt : {"map"}, refail : {FALSE}, stats : {<<>>}, err : Errors]
    \cup [failAt : {"flood", "elevation", "marker", "stats", "center"},
          refail : BOOLEAN, stats : {<<>>}, err : Errors]
    \cup [failAt : {"url"}, refail : {FALSE}, stats : {[depth |-> Num(60)]}, err : Errors]

RefailError == "Layer request failed"
CompareNoneError == "'>' not supported between instances of 'NoneType' and 'float'"

\* a tile layer of the map
Layer(name) == [name |-> name, url |-> "tiles/" \o name]

\* geemap.Map(center=[lat, lon], zoom=12) and add_basemap("SATELLITE"): the map
\* starts with its default base layer and the satellite base map is the second
\* layer, which is what flood_vulnerability_node's indices assume ("flood risk
\* is the third layer")
new_map(lat, lon) ==
    [t |-> "map", center |-> <<lat, lon>>, zoom |-> 12,
     layers |-> <<Layer("OpenStreetMap"), Layer("SATELLITE")>>]

addLayer(m, name) == [m EXCEPT !.layers = Append(@, Layer(name))]

\* the layers the inner try block has added when it is left at `at`
layers_added(m, at) ==
    LET m1 == addLayer(m, "Flood Hazard (0-1m depth)")
        m2 == addLayer(m1, "Elevation (m)")
        m3 == addLayer(m2, "Selected Location")
    IN  CASE at = "flood"     -> m
          [] at = "elevation" -> m1
          [] at = "marker"    -> m2
          [] OTHER            -> m3

\* the thresholds taken inclusively
risk_level_inclusive(flood_value) ==
    IF flood_value >= 50 THEN "High"
    ELSE IF flood_value >= 20 THEN "Moderate"
    ELSE "Low"

risk_level(flood_value) ==
    IF flood_value > 50 THEN "High"
    ELSE IF flood_value > 20 THEN "Moderate"
    ELSE "Low"

recommendation(level) ==
    CASE level = "High" ->
           "This area has high flood risk. Avoid construction and consider flood mitigation measures."
      [] level = "Moderate" ->
           "This area has moderate flood risk. Consider flood-resistant construction."
      [] OTHER ->
           "This area has low flood risk, but stay informed about local conditions."

analysis_text(lat, lon, location_name, flood_value) ==
    Text(<< Lit("## Flood Hazard Assessment for "),
            IF Truthy(location_name) THEN location_name ELSE Lit("Selected Location"),
            Lit("**Coordinates:** "), Fmt(lat, ".4f"), Lit(", "), Fmt(lon, ".4f"),
            Lit("**Flood Risk Level:** "), Lit(risk_level(flood_value)),
            Lit("**Flood Depth Index (0-1):** "), Fmt(flood_value, ".2f"),
            Lit("### Key Findings:"),
            Lit("### Recommendations:"), Lit(recommendation(risk_level(flood_value))) >>)

basic_map_text(lat, lon, e) ==
    Text(<< Lit("Basic map for ("), Fmt(lat, ""), Lit(", "), Fmt(lon, ""),
            Lit("). Error in flood analysis: "), Lit(e) >>)

producer_error_text(e) ==
    Text(<< Lit("Error in flood_vulnerability: "), Lit(e) >>)

\* returns <<analysis_text, map_object>>
flood_vulnerability(lat, lon, location_name, p) ==
    LET m          == new_map(lat, lon)
        depthNone  == p.failAt = "none" /\ Get(p.stats, "depth").t = "None"
                      /\ "depth" \in DOMAIN p.stats
        innerFails == p.failAt \in {"flood", "elevation", "marker", "stats", "center"}
                      \/ depthNone
        innerErr   == IF depthNone THEN CompareNoneError ELSE p.err
        flood_value == GetOr(p.stats, "depth", Num(0)).v
    IN  IF p.failAt = "map" THEN <<producer_error_text(p.err), None>>
        ELSE IF innerFails
        THEN IF p.refail
             THEN <<producer_error_text(RefailError), None>>
             ELSE <<basic_map_text(lat, lon, innerErr),
                    addLayer(layers_added(m, p.failAt), "Selected Location")>>
        ELSE <<analysis_text(lat, lon, location_name, flood_value),
               layers_added(m, "none")>>

-----------------------------------------------------------------------------
(* flood_vulnerability_node *)

DefaultCenterLat == 110168
DefaultCenterLng == 769558
Zoom == 12

MissingCoordinates == Text(<<Lit("Missing coordinates for flood analysis")>>)
CouldNotLoad == Text(<<Lit("Could not load map layers. Please try again.")>>)

\* the producer is called only when both coordinates are truthy
calls_producer(st) == Truthy(Get(st, "lat")) /\ Truthy(Get(st, "lon"))

missing_coordinates_state(st) ==
    Merge(st, [final_result |-> MissingCoordinates,
               map_data |-> Dict([center |-> [lat |-> Num(DefaultCenterLat),
                                              lng |-> Num(DefaultCenterLng)],
                                  zoom   |-> Zoom,
                                  error  |-> MissingCoordinates])])

\* the payload built from map_obj.layers[2], [3] and [4] (Python indices)
layers_map_data(lat, lon, location_name, map_obj) ==
    Dict([center   |-> [lat |-> lat, lng |-> lon],
          zoom     |-> Zoom,
          analysis |-> "flood_vulnerability",
          layers   |-> << [name |-> "Satellite",
                           url |-> "https://mt1.google.com/vt/lyrs=s&x={x}&y={y}&z={z}",
                           type |-> "raster"],
                          [name |-> "Flood Risk", url |-> map_obj.layers[3].url,
                           type |-> "raster"],
                          [name |-> "Water Occurrence", url |-> map_obj.layers[4].url,
                           type |-> "raster"],
                          [name |-> "Elevation", url |-> map_obj.layers[5].url,
                           type |-> "raster"] >>,
          markers  |-> << [position |-> [lat |-> lat, lng |-> lon],
                           popup |-> location_name, color |-> "red"] >>])

\* a fallback payload centred on the default point
fallback_map_data_default_center(lat, lon, location_name) ==
    Dict([center  |-> [lat |-> Num(DefaultCenterLat), lng |-> Num(DefaultCenterLng)],
          zoom    |-> Zoom,
          error   |-> CouldNotLoad,
          markers |-> << [position |-> [lat |-> lat, lng |-> lon],
                          popup |-> location_name] >>])

\* the payload of the inner except branch
fallback_map_data(lat, lon, location_name) ==
    Dict([center  |-> [lat |-> lat, lng |-> lon],
          zoom    |-> Zoom,
          error   |-> CouldNotLoad,
          markers |-> << [position |-> [lat |-> lat, lng |-> lon],
                          popup |-> location_name] >>])

\* map_obj.layers[4] exists: the object is a map with at least five layers
has_indexed_layers(map_obj) == map_obj.t = "map" /\ Len(map_obj.layers) >= 5

flood_vulnerability_node(st, p) ==
    IF ~Truthy(Get(st, "lat")) \/ ~Truthy(Get(st, "lon"))
    THEN missing_coordinates_state(st)
    ELSE LET lat == st["lat"]
             lon == st["lon"]
             location_name == GetOr(st, "location", Str(<<"S","e","l","e","c","t","e","d"," ",
                                                          "L","o","c","a","t","i","o","n">>))
             res == flood_vulnerability(lat.v, lon.v, location_name, p)
             map_obj == res[2]
             map_data == IF has_indexed_layers(map_obj) /\ p.failAt # "url"
                         THEN layers_map_data(lat, lon, location_name, map_obj)
                         ELSE fallback_map_data(lat, lon, location_name)
         IN  Merge(st, [final_result |-> res[1],
                        map_object   |-> map_obj,
                        map_data     |-> map_data])

-----------------------------------------------------------------------------
(* The graph *)

NoCalls == [classify |-> 0, extract |-> 0, geocode |-> 0, producer |-> 0]

Init ==
    /\ request \in Requests
    /\ state = graph_input(InitialState(request))
    /\ pc = "intent"
    /\ trace = <<>>
    /\ calls = NoCalls
    /\ last = [node |-> "none"]
    /\ seen = [sentinel |-> FALSE, geocode |-> "notcalled"]
    /\ turns = <<>>
    /\ ee = [phase |-> "off"]
    /\ response = [t |-> "none"]
    /\ ai = [phase |-> "off"]

\* intent that asks the provider again when its call failed
IntentRetries ==
    /\ pc = "intent"
    /\ \E result \in ClassifierOutcomes :
        /\ IF result = Raise
           THEN /\ pc' = "intent"
                /\ state' = state
                /\ last' = [node |-> "intent", in |-> state, out |-> result]
           ELSE /\ state' = graph_update(state, intent_node(state, result))
                /\ pc' = route_after_intent(state')
                /\ last' = [node |-> "intent", in |-> state, out |-> result,
                            ret |-> intent_node(state, result)]
    /\ trace' = Append(trace, "intent")
    /\ calls' = [calls EXCEPT !.classify = @ + 1]
    /\ UNCHANGED <<request, seen>>
    /\ UNCHANGED server

\* intent with the provider's failure swallowed: the turn goes on with no intent
IntentSwallowsFailure ==
    /\ pc = "intent"
    /\ \E result \in ClassifierOutcomes :
        /\ last' = [node |-> "intent", in |-> state, out |-> result,
                    ret |-> IF result = Raise THEN Merge(state, [intent |-> None])
                                              ELSE intent_node(state, result)]
        /\ state' = graph_update(state, IF result = Raise
                                         THEN Merge(state, [intent |-> None])
                                         ELSE intent_node(state, result))
        /\ pc' = route_after_intent(state')
    /\ trace' = Append(trace, "intent")
    /\ calls' = [calls EXCEPT !.classify = @ + 1]
    /\ UNCHANGED <<request, seen>>
    /\ UNCHANGED server

\* intent runs: the provider is called once; its failure leaves the node,
\* and graph.invoke, by the exception
Intent ==
    /\ pc = "intent"
    /\ \E result \in ClassifierOutcomes :
        /\ IF result = Raise
           THEN /\ pc' = "raised"
                /\ state' = state
                /\ last' = [node |-> "intent", in |-> state, out |-> result]
           ELSE /\ state' = graph_update(state, intent_node(state, result))
                /\ pc' = route_after_intent(state')
                /\ last' = [node |-> "intent", in |-> state, out |-> result,
                            ret |-> intent_node(state, result)]
    /\ trace' = Append(trace, "intent")
    /\ calls' = [calls EXCEPT !.classify = @ + 1]
    /\ UNCHANGED <<request, seen>>
    /\ UNCHANGED server

\* geo_query runs: the provider is called once; the edge to location_helper
\* is unconditional
GeoQuery ==
    /\ pc = "geo_query"
    /\ \E result \in ExtractorOutcomes :
        /\ IF result = Raise
           THEN /\ pc' = "raised"
                /\ state' = state
                /\ seen' = seen
                /\ last' = [node |-> "geo_query", in |-> state, out |-> result]
           ELSE /\ state' = graph_update(state, geo_query_node(state, result))
                /\ last' = [node |-> "geo_query", in |-> state, out |-> result,
                            ret |-> geo_query_node(state, result)]
                /\ pc' = "location_helper"
                /\ seen' = [seen EXCEPT !.sentinel =
                              \/ Contains(result.text, T_ASK_LOCATION)
                              \/ Contains(result.text, T_ASK_ANALYSIS)]
    /\ trace' = Append(trace, "geo_query")
    /\ calls' = [calls EXCEPT !.extract = @ + 1]
    /\ UNCHANGED request
    /\ UNCHANGED server

\* location_helper with an edge back to geo_query when no coordinates were found
LocationHelperReasks ==
    /\ pc = "location_helper"
    /\ \E geo \in (IF calls_geocoder(state) THEN GeocoderOutcomes ELSE {[t |-> "notcalled"]}) :
        /\ state' = graph_update(state, location_helper_node(state, geo))
        /\ last' = [node |-> "location_helper", in |-> state, out |-> geo,
                    ret |-> location_helper_node(state, geo)]
        /\ seen' = [seen EXCEPT !.geocode = geo.t]
        /\ calls' = [calls EXCEPT !.geocode = @ + (IF geo.t = "notcalled" THEN 0 ELSE 1)]
        /\ pc' = IF geo.t = "found" THEN "flood_vulnerability" ELSE "geo_query"
    /\ trace' = Append(trace, "location_helper")
    /\ UNCHANGED request
    /\ UNCHANGED server

\* location_helper runs: the geocoder is called once if the state has a
\* location; the edge to flood_vulnerability is unconditional
LocationHelper ==
    /\ pc = "location_helper"
    /\ \E geo \in (IF calls_geocoder(state) THEN GeocoderOutcomes ELSE {[t |-> "notcalled"]}) :
        /\ state' = graph_update(state, location_helper_node(state, geo))
        /\ last' = [node |-> "location_helper", in |-> state, out |-> geo,
                    ret |-> location_helper_node(state, geo)]
        /\ seen' = [seen EXCEPT !.geocode = geo.t]
        /\ calls' = [calls EXCEPT !.geocode = @ + (IF geo.t = "notcalled" THEN 0 ELSE 1)]
    /\ pc' = "flood_vulnerability"
    /\ trace' = Append(trace, "location_helper")
    /\ UNCHANGED request
    /\ UNCHANGED server

\* flood_vulnerability runs: the producer is called once if the state has
\* coordinates; the edge to END is unconditional
FloodVulnerability ==
    /\ pc = "flood_vulnerability"
    /\ \E p \in (IF calls_producer(state) THEN PlatformOutcomes ELSE {[failAt |-> "notcalled"]}) :
        /\ state' = graph_update(state, flood_vulnerability_node(state, p))
        /\ last' = [node |-> "flood_vulnerability", in |-> state, out |-> p,
                    ret |-> flood_vulnerability_node(state, p)]
        /\ calls' = [calls EXCEPT !.producer = @ + (IF p.failAt = "notcalled" THEN 0 ELSE 1)]
    /\ pc' = "END"
    /\ trace' = Append(trace, "flood_vulnerability")
    /\ UNCHANGED <<request, seen>>
    /\ UNCHANGED server

Next == Intent \/ GeoQuery \/ LocationHelper \/ FloodVulnerability

Spec == Init /\ [][Next]_vars

-----------------------------------------------------------------------------
(* Several turns in flight: each request of /api/agent builds its own state
   dict and passes it to graph.invoke; the compiled graph, the two chains and
   the node functions are module-level objects that hold no field of a turn *)

\* turns the server has in flight at once
NumTurns == 2
Turns == 1..NumTurns

\* what the turns served together are given and answered
ServedRequests ==
    { r \in Requests : /\ r.driver = "endpoint"
                       /\ r.location.t = "dict"
                       /\ "name" \in DOMAIN r.location.v }
ServedClassifier == {Raise, Reply("str", T_normal), Reply("str", T_query)}
ServedExtractor ==
    {Reply("message", T_ASK_LOCATION), Reply("message", T_location \o <<" ">> \o T_a_b)}
ServedGeocoder == GeocoderOutcomes \ {Raise}
ServedPlatform ==
    { p \in PlatformOutcomes : /\ p.failAt \in {"none", "map"}
                               /\ p.stats \in {<<>>, [depth |-> Num(60)]}
                               /\ p.err = "Quota exceeded"
                               /\ (p.failAt = "none") = (p.stats # <<>>) }

\* the external outcomes the node at pc can meet in state st
ServedOutcomes(at, st) ==
    CASE at = "intent"          -> ServedClassifier
      [] at = "geo_query"       -> ServedExtractor
      [] at = "location_helper" ->
            IF calls_geocoder(st) THEN ServedGeocoder ELSE {[t |-> "notcalled"]}
      [] at = "flood_vulnerability" ->
            IF calls_producer(st) THEN ServedPlatform ELSE {[failAt |-> "notcalled"]}

\* one step of graph.invoke: the node at pc runs on st with the external
\* outcome out; the declared keys of its dict are written to the state and
\* the edge gives the next node
run_node(at, st, out) ==
    CASE at = "intent" ->
            IF out = Raise THEN [state |-> st, pc |-> "raised"]
            ELSE LET st2 == graph_update(st, intent_node(st, out))
                 IN  [state |-> st2, pc |-> route_after_intent(st2)]
      [] at = "geo_query" ->
            IF out = Raise THEN [state |-> st, pc |-> "raised"]
            ELSE [state |-> graph_update(st, geo_query_node(st, out)),
                  pc |-> "location_helper"]
      [] at = "location_helper" ->
            [state |-> graph_update(st, location_helper_node(st, out)),
             pc |-> "flood_vulnerability"]
      [] at = "flood_vulnerability" ->
            [state |-> graph_update(st, flood_vulnerability_node(st, out)),
             pc |-> "END"]

IdleTurn == [pc |-> "idle", request |-> None, state |-> <<>>, replies |-> <<>>]

InFlight(t) == turns[t].pc \in {"intent", "geo_query", "location_helper", "flood_vulnerability"}

InitServed ==
    /\ turns = [t \in Turns |-> IdleTurn]
    /\ request = None /\ state = <<>> /\ pc = "END" /\ trace = <<>>
    /\ calls = NoCalls /\ last = [node |-> "none"]
    /\ seen = [sentinel |-> FALSE, geocode |-> "notcalled"]
    /\ ee = [phase |-> "off"]
    /\ response = [t |-> "none"]
    /\ ai = [phase |-> "off"]

\* agent_endpoint receives a request, builds the state of its turn and passes
\* it to graph.invoke
Receive(t) ==
    /\ turns[t].pc = "idle"
    /\ \E req \in ServedRequests :
        turns' = [turns EXCEPT ![t] = [pc |-> "intent", request |-> req,
                                       state |-> graph_input(InitialState(req)),
                                       replies |-> <<>>]]
    /\ UNCHANGED <<request, state, pc, trace, calls, last, seen, ee, response, ai>>

\* a graph whose nodes keep the state in one module-level dict: what a node
\* returns becomes the state of every turn in flight
StepShared(t) ==
    /\ InFlight(t)
    /\ \E out \in ServedOutcomes(turns[t].pc, turns[t].state) :
        LET r == run_node(turns[t].pc, turns[t].state, out)
        IN  turns' = [u \in Turns |->
                        IF u = t
                        THEN [turns[t] EXCEPT !.pc = r.pc, !.state = r.state,
                                              !.replies = Append(@, out)]
                        ELSE IF InFlight(u) THEN [turns[u] EXCEPT !.state = r.state]
                        ELSE turns[u]]
    /\ UNCHANGED <<request, state, pc, trace, calls, last, seen, ee, response, ai>>

\* the next node of turn t runs on that turn's state dict
Step(t) ==
    /\ InFlight(t)
    /\ \E out \in ServedOutcomes(turns[t].pc, turns[t].state) :
        LET r == run_node(turns[t].pc, turns[t].state, out)
        IN  turns' = [turns EXCEPT ![t] = [@ EXCEPT !.pc = r.pc, !.state = r.state,
                                                    !.replies = Append(@, out)]]
    /\ UNCHANGED <<request, state, pc, trace, calls, last, seen, ee, response, ai>>

NextServed == \E t \in Turns : Receive(t) \/ Step(t)

SpecServed == InitServed /\ [][NextServed]_vars

-----------------------------------------------------------------------------
(* The Earth Engine service (services/earth_engine_service.py) and the two
   /api/earth-engine endpoints of main.py that call it *)

\* requests the two endpoints handle in one run of the server
MaxRequests == 3

T_not_initialized == "Earth Engine not initialized"

\* what the service finds when it is constructed:
\*   account   EE_SERVICE_ACCOUNT and EE_PRIVATE_KEY_PATH are set
\*   keyfile   the key file exists
\*   platform  the credentials are accepted and ee.Initialize returns
Configs == [account : BOOLEAN, keyfile : BOOLEAN, platform : BOOLEAN]

\* EarthEngineService._initialize_ee: the value it leaves in self.initialized,
\* which __init__ set to False
initialize_ee(cfg) ==
    IF ~cfg.platform THEN FALSE
    ELSE IF cfg.account THEN (IF cfg.keyfile THEN TRUE ELSE FALSE)
    ELSE TRUE

Exception(msg) == [cls |-> "Exception", msg |-> msg]
HTTPException(status_code, detail) ==
    [cls |-> "HTTPException", status_code |-> status_code, detail |-> detail]
NoException == [cls |-> "none"]

\* the platform as a service method finds it: whether the Sentinel-1 and the
\* Sentinel-2 collection have an image for the region, and which request of
\* the call fails, counted from its first (0: none fails)
ServiceOutcomes ==
    {[s1 |-> a, s2 |-> b, failAt |-> k, err |-> "Quota exceeded"] :
        a \in BOOLEAN, b \in BOOLEAN, k \in 0..5}

\* the same platform after n requests of the call were answered
after_requests(out, n) ==
    [out EXCEPT !.failAt = IF @ > n THEN @ - n ELSE 0]

\* a point of the query string
Points == {ClientCoord, <<DefaultCenterLat, DefaultCenterLng>>}

NoMethodCalls == [flood |-> 0, building |-> 0]

\* The result of a service method: what it returns or raises, the number of
\* requests it sent to the platform, and the number of times
\* get_flood_analysis and get_building_analysis were entered

\* the URL get_map_id builds from the mapid and the token that the platform
\* returned
tile_url(mapid, token) ==
    <<Lit("https://earthengine.googleapis.com/v1alpha/projects/earthengine-legacy/maps/"),
      Lit(mapid), Lit("/tiles/{z}/{x}/{y}?token="), Lit(token)>>

\* EarthEngineService.get_map_id: one request, getMapId
ee_get_map_id(svc, out) ==
    IF ~svc.initialized
    THEN [t |-> "raise", e |-> Exception(<<Lit(T_not_initialized)>>), requests |-> 0,
          calls |-> NoMethodCalls]
    ELSE IF out.failAt = 1
    THEN [t |-> "raise", requests |-> 1, calls |-> NoMethodCalls,
          e |-> Exception(<<Lit("Error getting map ID: "), Lit(out.err)>>)]
    ELSE [t |-> "return", requests |-> 1, calls |-> NoMethodCalls,
          v |-> [mapid |-> "mapid", token |-> "token",
                 tile_url |-> tile_url("mapid", "token")]]

\* EarthEngineService.get_flood_analysis: the size of the Sentinel-1
\* collection, the flood statistic if the collection has an image, the
\* elevation statistic
ee_get_flood_analysis(svc, lat, lng, out) ==
    LET n == IF out.s1 THEN 3 ELSE 2
        entered == [flood |-> 1, building |-> 0]
    IN  IF ~svc.initialized
        THEN [t |-> "raise", e |-> Exception(<<Lit(T_not_initialized)>>),
              requests |-> 0, calls |-> entered]
        ELSE IF out.failAt \in 1..n
        THEN [t |-> "raise", requests |-> out.failAt, calls |-> entered,
              e |-> Exception(<<Lit("Error in flood analysis: "), Lit(out.err)>>)]
        ELSE [t |-> "return", requests |-> n, calls |-> entered,
              v |-> [analysis |-> "flood", images |-> out.s1,
                     coordinates |-> [lat |-> lat, lng |-> lng]]]

\* EarthEngineService.get_building_analysis: the size of the Sentinel-2
\* collection and, if the collection has an image, the built-up statistic and
\* then self.get_flood_analysis for the damage factor
ee_get_building_analysis(svc, lat, lng, out) ==
    LET entered == [flood |-> 0, building |-> 1]
        nested  == [flood |-> 1, building |-> 1]
        n       == IF out.s2 THEN 2 ELSE 1
        flood_data == ee_get_flood_analysis(svc, lat, lng, after_requests(out, 2))
    IN  IF ~svc.initialized
        THEN [t |-> "raise", e |-> Exception(<<Lit(T_not_initialized)>>),
              requests |-> 0, calls |-> entered]
        ELSE IF out.failAt \in 1..n
        THEN [t |-> "raise", requests |-> out.failAt, calls |-> entered,
              e |-> Exception(<<Lit("Error in building analysis: "), Lit(out.err)>>)]
        ELSE IF ~out.s2
        THEN [t |-> "return", requests |-> 1, calls |-> entered,
              v |-> [analysis |-> "building", images |-> FALSE,
                     coordinates |-> [lat |-> lat, lng |-> lng]]]
        ELSE IF flood_data.t = "raise"
        THEN [t |-> "raise", requests |-> 2 + flood_data.requests, calls |-> nested,
              e |-> Exception(<<Lit("Error in building analysis: ")>> \o flood_data.e.msg)]
        ELSE [t |-> "return", requests |-> 2 + flood_data.requests, calls |-> nested,
              v |-> [analysis |-> "building", images |-> TRUE,
                     coordinates |-> [lat |-> lat, lng |-> lng]]]

\* get_satellite_layers without the test of the flag: the platform is asked
\* and its failure is what the caller sees
ee_get_satellite_layers_unguarded(svc, lat, lng, out) ==
    LET up == [svc EXCEPT !.initialized = TRUE]
        satellite  == ee_get_map_id(up, out)
        vegetation == ee_get_map_id(up, after_requests(out, 1))
        elevation  == ee_get_map_id(up, after_requests(out, 2))
    IN  IF out.failAt \in 1..3 \/ ~svc.config.platform
        THEN [t |-> "raise", calls |-> NoMethodCalls,
              requests |-> IF svc.config.platform THEN out.failAt ELSE 1,
              e |-> Exception(<<Lit("Error getting satellite layers: "),
                                Lit("Error getting map ID: "), Lit(out.err)>>)]
        ELSE [t |-> "return", requests |-> 3, calls |-> NoMethodCalls,
              v |-> [satellite |-> satellite.v, vegetation |-> vegetation.v,
                     elevation |-> elevation.v]]

\* EarthEngineService.get_satellite_layers: the dict of its three layers,
\* each the value of self.get_map_id (one request each); a failure of
\* get_map_id is raised again with the prefix of this method
ee_get_satellite_layers(svc, lat, lng, out) ==
    LET satellite  == ee_get_map_id(svc, out)
        vegetation == ee_get_map_id(svc, after_requests(out, 1))
        elevation  == ee_get_map_id(svc, after_requests(out, 2))
        again(r, n) == [t |-> "raise", requests |-> n, calls |-> NoMethodCalls,
                        e |-> Exception(<<Lit("Error getting satellite layers: ")>>
                                        \o r.e.msg)]
    IN  IF ~svc.initialized
        THEN [t |-> "raise", e |-> Exception(<<Lit(T_not_initialized)>>),
              requests |-> 0, calls |-> NoMethodCalls]
        ELSE IF satellite.t = "raise" THEN again(satellite, 1)
        ELSE IF vegetation.t = "raise" THEN again(vegetation, 2)
        ELSE IF elevation.t = "raise" THEN again(elevation, 3)
        ELSE [t |-> "return", requests |-> 3, calls |-> NoMethodCalls,
              v |-> [satellite |-> satellite.v, vegetation |-> vegetation.v,
                     elevation |-> elevation.v]]

Operations ==
    {"get_map_id", "get_flood_analysis", "get_building_analysis", "get_satellite_layers"}

\* a call of one operation of the service
ee_call(svc, op, lat, lng, out) ==
    CASE op = "get_map_id"            -> ee_get_map_id(svc, out)
      [] op = "get_flood_analysis"    -> ee_get_flood_analysis(svc, lat, lng, out)
      [] op = "get_building_analysis" -> ee_get_building_analysis(svc, lat, lng, out)
      [] op = "get_satellite_layers"  -> ee_get_satellite_layers(svc, lat, lng, out)

\* the body of an endpoint: the initialized test and the service call are
\* inside the try, and "except Exception" turns whatever was raised there
\* into HTTPException(500, prefix + str(e)); the service method is called
\* only past the test
endpoint_answer(svc, call, prefix) ==
    LET raised == IF ~svc.initialized
                  THEN HTTPException(503, <<Lit(T_not_initialized)>>)
                  ELSE IF call.t = "raise" THEN call.e ELSE NoException
        sent   == IF svc.initialized THEN call.requests ELSE 0
        made   == IF svc.initialized THEN call.calls ELSE NoMethodCalls
    IN  IF raised = NoException
        THEN [status |-> 200, body |-> call.v, requests |-> sent, calls |-> made]
        ELSE [status |-> 500,
              detail |-> <<Lit(prefix), [t |-> "str(e)", e |-> raised]>>,
              requests |-> sent, calls |-> made]

\* GET /api/earth-engine/flood-analysis
get_flood_analysis(svc, lat, lng, out) ==
    endpoint_answer(svc, ee_get_flood_analysis(svc, lat, lng, out),
                    "Flood analysis failed: ")

\* GET /api/earth-engine/building-analysis
get_building_analysis(svc, lat, lng, out) ==
    endpoint_answer(svc, ee_get_building_analysis(svc, lat, lng, out),
                    "Building analysis failed: ")

InitEE ==
    /\ ee = [phase |-> "off"]
    /\ response = [t |-> "none"]
    /\ ai = [phase |-> "off"]
    /\ turns = <<>>
    /\ request = None /\ state = <<>> /\ pc = "END" /\ trace = <<>>
    /\ calls = NoCalls /\ last = [node |-> "none"]
    /\ seen = [sentinel |-> FALSE, geocode |-> "notcalled"]

\* the server starts: EarthEngineService() is constructed once
Startup ==
    /\ ee.phase = "off"
    /\ \E cfg \in Configs :
        ee' = [phase |-> "up", config |-> cfg, initialized |-> initialize_ee(cfg),
               invoked |-> NoMethodCalls, handled |-> 0,
               requests |-> 0]
    /\ UNCHANGED <<request, state, pc, trace, calls, last, seen, turns, response, ai>>

FloodAnalysisRequest ==
    /\ ee.phase = "up" /\ ee.handled < MaxRequests
    /\ \E pt \in Points, out \in ServiceOutcomes :
        LET answer == get_flood_analysis(ee, pt[1], pt[2], out)
        IN  /\ response' = [t |-> "response", endpoint |-> "flood-analysis",
                            initialized |-> ee.initialized, answer |-> answer]
            /\ ee' = [ee EXCEPT !.handled = @ + 1,
                                !.invoked.flood = @ + answer.calls.flood,
                                !.invoked.building = @ + answer.calls.building,
                                !.requests = @ + answer.requests]
    /\ UNCHANGED <<request, state, pc, trace, calls, last, seen, turns, ai>>

BuildingAnalysisRequest ==
    /\ ee.phase = "up" /\ ee.handled < MaxRequests
    /\ \E pt \in Points, out \in ServiceOutcomes :
        LET answer == get_building_analysis(ee, pt[1], pt[2], out)
        IN  /\ response' = [t |-> "response", endpoint |-> "building-analysis",
                            initialized |-> ee.initialized, answer |-> answer]
            /\ ee' = [ee EXCEPT !.handled = @ + 1,
                                !.invoked.flood = @ + answer.calls.flood,
                                !.invoked.building = @ + answer.calls.building,
                                !.requests = @ + answer.requests]
    /\ UNCHANGED <<request, state, pc, trace, calls, last, seen, turns, ai>>

\* an operation of the service is called directly; no method writes the flag
ServiceCall ==
    /\ ee.phase = "up" /\ ee.handled < MaxRequests
    /\ \E op \in Operations, pt \in Points, out \in ServiceOutcomes :
        LET result == ee_call(ee, op, pt[1], pt[2], out)
        IN  /\ response' = [t |-> "call", op |-> op, initialized |-> ee.initialized,
                            result |-> result]
            /\ ee' = [ee EXCEPT !.handled = @ + 1,
                                !.invoked.flood = @ + result.calls.flood,
                                !.invoked.building = @ + result.calls.building,
                                !.requests = @ + result.requests]
    /\ UNCHANGED <<request, state, pc, trace, calls, last, seen, turns, ai>>

NextEE == Startup \/ FloodAnalysisRequest \/ BuildingAnalysisRequest \/ ServiceCall

SpecEE == InitEE /\ [][NextEE]_vars

-----------------------------------------------------------------------------
(* AIService (services/ai_service.py): process_natural_query and its helpers.
   A confidence is in tenths: 9 is 0.9, 7 is 0.7 *)

\* queries one run of the service answers
MaxQueries == 3

\* what the service finds when it is constructed:
\*   key     config.GROQ_API_KEY is set
\*   client  Groq(api_key=...) returns a client
AIConfigs == [key : BOOLEAN, client : BOOLEAN]

\* AIService.__init__: self.available
ai_available(cfg) == cfg.key /\ cfg.client

Queries ==
    { <<"F","l","o","o","d"," ","r","i","s","k">>,
      <<"W","a","t","e","r"," ","d","a","m","a","g","e">>,
      <<"B","u","i","l","d","i","n","g">>,
      <<"S","o","c","i","a","l">>,
      <<"r","i","s","k">>,
      <<"h","i">>,
      <<"S","T","R","U","C","T","U","R","E">>,
      <<"e","v","a","l","u","a","t","i","o","n"," ","o","f"," ",
        "c","o","m","m","u","n","i","t","y">> }

\* the completion of the provider: message.content, or a failure
CompletionOutcomes ==
    { Raise,
      Reply("message", <<" ","o","k","\n">>),
      Reply("message", <<"R","i","s","k","y",".">>) }

FloodWords ==
    { <<"f","l","o","o","d">>, <<"f","l","o","o","d","i","n","g">>,
      <<"w","a","t","e","r">>, <<"i","n","u","n","d","a","t","i","o","n">> }
BuildingWords ==
    { <<"b","u","i","l","d","i","n","g">>, <<"d","a","m","a","g","e">>,
      <<"i","n","f","r","a","s","t","r","u","c","t","u","r","e">>,
      <<"s","t","r","u","c","t","u","r","e">> }
SocialWords ==
    { <<"v","u","l","n","e","r","a","b","i","l","i","t","y">>, <<"s","o","c","i","a","l">>,
      <<"p","o","p","u","l","a","t","i","o","n">>, <<"c","o","m","m","u","n","i","t","y">> }
RiskWords ==
    { <<"r","i","s","k">>, <<"a","s","s","e","s","s","m","e","n","t">>,
      <<"e","v","a","l","u","a","t","i","o","n">> }

\* AIService._extract_intent
extract_intent(query) ==
    LET query_lower == Lower(query)
        any(words)  == \E word \in words : Contains(query_lower, word)
    IN  IF any(FloodWords) THEN "flood_analysis"
        ELSE IF any(BuildingWords) THEN "building_damage"
        ELSE IF any(SocialWords) THEN "social_vulnerability"
        ELSE IF any(RiskWords) THEN "risk_assessment"
        ELSE "general_analysis"

\* AIService._get_suggested_actions
get_suggested_actions(intent) ==
    CASE intent = "flood_analysis" ->
           << "View flood risk zones on map", "Check historical flood data",
              "Analyze drainage patterns", "Assess elevation vulnerability" >>
      [] intent = "building_damage" ->
           << "Identify vulnerable structures", "Calculate exposure metrics",
              "Map critical infrastructure", "Estimate repair costs" >>
      [] intent = "social_vulnerability" ->
           << "Map population density", "Identify vulnerable communities",
              "Assess evacuation routes", "Locate emergency facilities" >>
      [] intent = "risk_assessment" ->
           << "Generate risk report", "Create vulnerability map",
              "Plan mitigation strategies", "Design early warning system" >>
      [] OTHER ->
           << "Analyze available data", "Generate basic report",
              "View satellite imagery", "Export analysis results" >>

NotAvailableText == Text(<<Lit("AI service is not available.")>>)
ApologyText ==
    Text(<<Lit("I'm sorry, I encountered an error processing your request. Please try again later.")>>)

\* AIService._get_ai_response: the stripped content of the completion; a
\* failure of the provider is caught here and answered with the apology
get_ai_response(svc, query, out) ==
    IF ~svc.available \/ ~svc.config.client THEN NotAvailableText
    ELSE IF out = Raise THEN ApologyText
    ELSE Str(Strip(out.text))

\* the table of AIService._fallback_processing
fallback_response(intent) ==
    CASE intent = "flood_analysis" ->
           "Analyzing flood vulnerability using satellite data and elevation models. This includes water detection from SAR imagery and topographic analysis."
      [] intent = "building_damage" ->
           "Assessing building damage potential using optical satellite imagery and building footprint detection algorithms."
      [] intent = "social_vulnerability" ->
           "Evaluating social vulnerability using demographic data and infrastructure proximity analysis."
      [] intent = "risk_assessment" ->
           "Conducting comprehensive risk assessment combining flood probability, building exposure, and population vulnerability."
      [] OTHER ->
           "Performing general disaster risk analysis using available geospatial datasets and Earth observation data."

\* AIService._fallback_processing
fallback_processing(query, intent) ==
    [intent |-> intent,
     ai_response |-> Text(<<Lit(fallback_response(intent))>>),
     confidence |-> 7,
     suggested_actions |-> get_suggested_actions(intent)]

\* AIService.process_natural_query: _get_ai_response raises nothing, so the
\* except branch of this method is never taken
process_natural_query(svc, query, out) ==
    LET intent == extract_intent(query)
    IN  IF svc.available
        THEN [intent |-> intent,
              ai_response |-> get_ai_response(svc, query, out),
              confidence |-> 9,
              suggested_actions |-> get_suggested_actions(intent)]
        ELSE fallback_processing(query, intent)

InitAI ==
    /\ ai = [phase |-> "off"]
    /\ ee = [phase |-> "off"]
    /\ response = [t |-> "none"]
    /\ turns = <<>>
    /\ request = None /\ state = <<>> /\ pc = "END" /\ trace = <<>>
    /\ calls = NoCalls /\ last = [node |-> "none"]
    /\ seen = [sentinel |-> FALSE, geocode |-> "notcalled"]

\* the server starts: AIService() is constructed once
AIStartup ==
    /\ ai.phase = "off"
    /\ \E cfg \in AIConfigs :
        ai' = [phase |-> "up", config |-> cfg, available |-> ai_available(cfg),
               handled |-> 0, asked |-> 0, answer |-> [t |-> "none"]]
    /\ UNCHANGED <<request, state, pc, trace, calls, last, seen, turns, ee, response>>

\* process_natural_query is called; the provider is asked only when the
\* service is available
NaturalQuery ==
    /\ ai.phase = "up" /\ ai.handled < MaxQueries
    /\ \E query \in Queries,
          out \in (IF ai.available THEN CompletionOutcomes ELSE {[t |-> "notcalled"]}) :
        ai' = [ai EXCEPT !.handled = @ + 1,
                         !.asked = @ + (IF out.t = "notcalled" THEN 0 ELSE 1),
                         !.answer = [t |-> "return", query |-> query, out |-> out,
                                     v |-> process_natural_query(ai, query, out)]]
    /\ UNCHANGED <<request, state, pc, trace, calls, last, seen, turns, ee, response>>

NextAI == AIStartup \/ NaturalQuery

SpecAI == InitAI /\ [][NextAI]_vars

-----------------------------------------------------------------------------
(* Vocabulary of the properties *)

\* a field is absent: the key is missing or its value is None
Absent(st, k) == Get(st, k) = None

\* the turn started with nothing but the input set
Fresh == \A k \in Keys \ {"input"} : Absent(InitialState(request), k)

Ran(node) == \E i \in DOMAIN trace : trace[i] = node

\* the last node execution was `node` and the collaborator answered (no failure)
Answered(node) == last.node = node /\ last.out.t = "reply"

HasSentinel(text) == Contains(text, T_ASK_LOCATION) \/ Contains(text, T_ASK_ANALYSIS)

\* the reply reads "normal" once trimmed and lower-cased
ReadsNormal(text) == Lower(Strip(text)) = T_normal

-----------------------------------------------------------------------------
(* C1: once the extractor's reply contains ASK_LOCATION or ASK_ANALYSIS, the
   turn is over after geo_query: only intent and geo_query have run, neither
   the geocoder nor the producer was called, and location, analysis and
   final_result are absent from the state. *)
C1_SentinelEndsTurn ==
    (seen.sentinel /\ Fresh) =>
        /\ pc = "END"
        /\ trace = <<"intent", "geo_query">>
        /\ calls.geocode = 0 /\ calls.producer = 0
        /\ Absent(state, "location") /\ Absent(state, "analysis")
        /\ Absent(state, "final_result")

(* C2: from a fresh state, a classifier reply that reads "normal" after
   trimming and ignoring case ends the turn right after intent: no other
   node runs, no collaborator but the classifier is called, and location,
   lat, lon and final_result are absent. *)
C2_NormalEndsTurn ==
    (Answered("intent") /\ ReadsNormal(last.out.text) /\ Fresh) =>
        /\ pc = "END"
        /\ trace = <<"intent">>
        /\ calls = [NoCalls EXCEPT !.classify = 1]
        /\ Absent(state, "location") /\ Absent(state, "lat")
        /\ Absent(state, "lon") /\ Absent(state, "final_result")

(* C3: a classifier reply that does not read "normal" always sends the turn
   on to geo_query; when it is neither literal the stored intent is the
   unknown value (None). *)
C3_NotNormalGoesOn ==
    (Answered("intent") /\ ~ReadsNormal(last.out.text)) =>
        /\ pc = "geo_query"
        /\ state["intent"] \in {None, Str(T_query)}
        /\ (Lower(Strip(last.out.text)) # T_query => state["intent"] = None)

C3_Witness ==
    /\ Answered("intent")
    /\ last.out.text = <<"s","u","r","e",":"," ">> \o T_query
    /\ state["intent"] = None
    /\ pc = "geo_query"

(* C4: no turn ever leaves graph.invoke by an exception. *)
C4_NeverRaises == pc # "raised"

(* C5: when the provider fails during classification the turn fails as a
   whole: graph.invoke raises, intent is the only node that ran, the
   classifier was called exactly once and nothing else was called, and no
   further step is possible. *)
C5_ClassifierFailurePropagates ==
    (last.node = "intent" /\ last.out = Raise) =>
        /\ pc = "raised"
        /\ trace = <<"intent">>
        /\ calls = [NoCalls EXCEPT !.classify = 1]
        /\ state = last.in
        /\ ~ENABLED Next

C5_Witness ==
    /\ last.node = "intent" /\ last.out = Raise
    /\ pc = "raised"
    /\ calls.classify = 1

(* C6: when a layer request or the statistic request fails inside
   flood_vulnerability, the final state of the turn has a final_result that
   is an error text containing the message of the error, and a map payload
   that has no raster layers, only the one marker at the input coordinates. *)
C6_PlatformFailureMarkerOnly ==
    (last.node = "flood_vulnerability"
        /\ last.out.failAt \in {"flood", "elevation", "marker", "stats"}) =>
        /\ \E i \in DOMAIN state["final_result"].v :
              state["final_result"].v[i] \in {Lit(last.out.err), Lit(RefailError)}
        /\ Get(state, "map_data").t = "dict"
        /\ "layers" \notin DOMAIN state["map_data"].v
        /\ Len(state["map_data"].v.markers) = 1
        /\ state["map_data"].v.markers[1].position =
              [lat |-> last.in["lat"], lng |-> last.in["lon"]]

(* C7: in a turn started fresh in which the geocoder found no match, lat and
   lon are absent after location_helper, the producer is never called, and
   the final state of the turn has final_result "Missing coordinates for
   flood analysis" and a payload with centre (11.0168, 76.9558), zoom 12 and
   that text as its error. *)
C7_NoMatchMissingCoordinates ==
    (Fresh /\ seen.geocode = "notfound") =>
        /\ Absent(state, "lat") /\ Absent(state, "lon")
        /\ calls.producer = 0
        /\ pc \in {"flood_vulnerability", "END"}
        /\ pc = "END" =>
              /\ state["final_result"] = MissingCoordinates
              /\ Get(state, "map_data") =
                    Dict([center |-> [lat |-> Num(110168), lng |-> Num(769558)],
                          zoom   |-> 12,
                          error  |-> MissingCoordinates])

(* C8: when the state has no location, or the geocoder finds nothing or
   raises, location_helper_node raises nothing and returns its input state,
   equal in every field. *)
C8_ResolverFrame ==
    (last.node = "location_helper" /\ last.out.t \in {"notcalled", "notfound", "raise"}) =>
        /\ state = last.in
        /\ pc = "flood_vulnerability"
        /\ (last.out.t = "notcalled") = ~Truthy(Get(last.in, "location"))

C8_Witness ==
    /\ last.node = "location_helper" /\ last.out = Raise
    /\ Truthy(Get(last.in, "lat"))
    /\ state = last.in

(* C9: when the extractor's reply contains ASK_LOCATION or ASK_ANALYSIS
   anywhere, also beside "Location:" or "Analysis:" lines, geo_query_node
   returns a state equal to its input in every field. *)
C9_SentinelFrame ==
    (Answered("geo_query") /\ HasSentinel(last.out.text)) => state = last.in

C9_Witness ==
    /\ Answered("geo_query")
    /\ last.out.text = Join(<< <<"L">> \o SubSeq(T_location, 2, 9) \o <<" ">> \o T_Goa,
                               <<"x"," ">> \o T_ASK_ANALYSIS \o <<".">> >>)
    /\ Absent(state, "location")
    /\ state = last.in

(* C10: for a sentinel-free reply of one "location: X" line and one
   "analysis: Y" line, labels in any case, in either order, with whitespace
   around, the state after geo_query_node has location = X and analysis = Y
   (X and Y taken without the surrounding whitespace). *)
C10_LabelledLines ==
    \A lp \in LocationParams, ap \in AnalysisParams :
        (Answered("geo_query")
            /\ last.out.text \in {Join(<<LabelLine(lp), LabelLine(ap)>>),
                                  Join(<<LabelLine(ap), LabelLine(lp)>>)}) =>
            /\ state["location"] = Str(lp[4])
            /\ state["analysis"] = Str(ap[4])

C10_Witness ==
    /\ Answered("geo_query")
    /\ last.out.text =
          Join(<< <<" ">> \o <<"A","N","A","L","Y","S","I","S",":">> \o <<" ", " ">>
                     \o T_fire \o <<"\t">>,
                  <<" ", " ">> \o <<"L","O","C","A","T","I","O","N",":">> \o <<"\t">>
                     \o T_a_b \o <<" ", " ">> >>)
    /\ state["location"] = Str(T_a_b)
    /\ state["analysis"] = Str(T_fire)

(* C11: the risk level in the summary is a function of the mean depth d
   alone: High exactly when d > 0.5, Moderate exactly when 0.2 < d <= 0.5,
   Low exactly when d <= 0.2; a missing depth key counts as 0; and the
   recommendation is the one fixed for the level. *)
C11_RiskLevel ==
    (last.node = "flood_vulnerability" /\ last.out.failAt = "none"
        /\ (Get(last.out.stats, "depth").t = "num" \/ last.out.stats = <<>>)) =>
        LET d == IF last.out.stats = <<>> THEN 0 ELSE last.out.stats["depth"].v
            text == state["final_result"].v
        IN  /\ (d > 50) = (text[8] = Lit("High"))
            /\ (20 < d /\ d <= 50) = (text[8] = Lit("Moderate"))
            /\ (d <= 20) = (text[8] = Lit("Low"))
            /\ text[7] = Lit("**Flood Risk Level:** ")
            /\ text[13] = Lit(
                 CASE text[8] = Lit("High") ->
                        "This area has high flood risk. Avoid construction and consider flood mitigation measures."
                   [] text[8] = Lit("Moderate") ->
                        "This area has moderate flood risk. Consider flood-resistant construction."
                   [] OTHER ->
                        "This area has low flood risk, but stay informed about local conditions.")

C11_Witness ==
    /\ last.node = "flood_vulnerability" /\ last.out.failAt = "none"
    /\ last.out.stats = [depth |-> Num(50)]
    /\ state["final_result"].v[8] = Lit("Moderate")

(* C12: when the geocoder found the location and every platform request of
   the producer succeeded, the final state of the turn has a final_result
   that contains "Flood Risk Level" and a map payload with exactly 4 layers
   and exactly 1 marker at the geocoded coordinates, which are also its
   centre. *)
C12_SuccessPayload ==
    (last.node = "flood_vulnerability" /\ seen.geocode = "found"
        /\ last.out.failAt = "none") =>
        LET md == Get(state, "map_data").v
            at == [lat |-> state["lat"], lng |-> state["lon"]]
        IN  /\ Get(state, "map_data").t = "dict"
            /\ \E i \in DOMAIN state["final_result"].v :
                  state["final_result"].v[i] = Lit("**Flood Risk Level:** ")
            /\ "layers" \in DOMAIN md /\ Len(md.layers) = 4
            /\ Len(md.markers) = 1 /\ md.markers[1].position = at
            /\ md.center = at

(* C13: the nodes run in the order intent, geo_query, location_helper,
   flood_vulnerability, each at most once and none before its predecessor;
   no step returns to an earlier node, also after a failed geocoding; a turn
   that has not ended can take its next step, and it has ended after at most
   four node executions. *)
NodeOrder == <<"intent", "geo_query", "location_helper", "flood_vulnerability">>

C13_LinearOrder ==
    /\ Len(trace) <= 4
    /\ trace = SubSeq(NodeOrder, 1, Len(trace))
    /\ pc \in {"END", "raised"} => ~ENABLED Next
    /\ pc \notin {"END", "raised"} =>
          /\ Len(trace) < 4
          /\ pc = NodeOrder[Len(trace) + 1]
          /\ ENABLED Next

C13_Witness ==
    /\ pc = "END" /\ trace = NodeOrder
    /\ seen.geocode = "notfound"

(* C14: a node changes only its own fields (intent: intent; geo_query:
   location, analysis; location_helper: lat, lon; flood_vulnerability:
   final_result, map_object, map_data): the dict it returns, and the state
   after it, keep every other field as the node received it; so input is the turn's input in every state, and
   final_result is absent until flood_vulnerability has run. *)
OwnFields(node) ==
    CASE node = "intent"              -> {"intent"}
      [] node = "geo_query"           -> {"location", "analysis"}
      [] node = "location_helper"     -> {"lat", "lon"}
      [] node = "flood_vulnerability" -> {"final_result", "map_object", "map_data"}
      [] OTHER                        -> {}

C14_NodeFrames ==
    /\ "ret" \in DOMAIN last =>
          \A k \in Keys \ OwnFields(last.node) :
              /\ (k \in DOMAIN last.ret) = (k \in DOMAIN last.in)
              /\ k \in DOMAIN last.ret => last.ret[k] = last.in[k]
    /\ last.node # "none" =>
          \A k \in Keys \ OwnFields(last.node) :
              /\ (k \in DOMAIN state) = (k \in DOMAIN last.in)
              /\ k \in DOMAIN state => state[k] = last.in[k]
    /\ state["input"] = Str(request.input)
    /\ ~Ran("flood_vulnerability") => Absent(state, "final_result")

C14_Witness ==
    /\ last.node = "geo_query" /\ "ret" \in DOMAIN last
    /\ Truthy(Get(last.in, "lat")) /\ state["lat"] = last.in["lat"]
    /\ last.ret["lat"] = last.in["lat"]
    /\ Truthy(state["location"]) /\ state["location"] # last.in["location"]

(* C15 as stated: in every state of a turn lat and lon are both present or
   both absent, and they are present only if location is present and the
   geocoder returned a match in this turn. *)
C15_Original ==
    /\ Absent(state, "lat") = Absent(state, "lon")
    /\ ~Absent(state, "lat") => (~Absent(state, "location") /\ seen.geocode = "found")

(* C15 amended: in a turn whose request carried no coordinates, lat and lon
   are both present or both absent, and present only if location is present
   and the geocoder returned a match in this turn; coordinates carried by
   the request stay as sent unless a geocoder match replaces them. *)
NoCoordinatesSent ==
    Absent(InitialState(request), "lat") /\ Absent(InitialState(request), "lon")

C15_Amended ==
    /\ NoCoordinatesSent =>
          /\ Absent(state, "lat") = Absent(state, "lon")
          /\ ~Absent(state, "lat") =>
                (Truthy(Get(state, "location")) /\ seen.geocode = "found")
    /\ (~NoCoordinatesSent /\ seen.geocode # "found") =>
          /\ state["lat"] = InitialState(request)["lat"]
          /\ state["lon"] = InitialState(request)["lon"]

C15_Witness ==
    /\ NoCoordinatesSent /\ pc = "END"
    /\ seen.geocode = "found"
    /\ state["lat"] = Num(152993) /\ state["lon"] = Num(741240)

(* C16 as stated: the state a driver passes to graph.invoke has only input
   set; every other field is absent, whatever the request contains. *)
C16_Original ==
    trace = <<>> => \A k \in Keys \ {"input"} : Absent(state, k)

(* C16 amended: the state a driver passes to graph.invoke has input set and
   intent, analysis, final_result, map_object and the map payload absent;
   agent.py __main__ passes nothing but input, and /api/agent copies the
   name, lat and lng of the request's location member into location, lat
   and lon (a location that is not an object becomes the location name). *)
C16_Amended ==
    trace = <<>> =>
        /\ state["input"] = Str(request.input)
        /\ \A k \in {"intent", "analysis", "final_result", "map_object", "map_data"} :
              Absent(state, k)
        /\ request.driver = "main" => DOMAIN state = {"input"}
        /\ (request.driver = "endpoint" /\ request.location.t = "dict") =>
              /\ state["location"] = Get(request.location.v, "name")
              /\ state["lat"] = Get(request.location.v, "lat")
              /\ state["lon"] = Get(request.location.v, "lng")
        /\ (request.driver = "endpoint" /\ request.location.t # "dict") =>
              /\ state["location"] = request.location
              /\ Absent(state, "lat") /\ Absent(state, "lon")

C16_Witness ==
    /\ trace = <<>> /\ request.driver = "endpoint"
    /\ state["location"] = Str(T_Goa)
    /\ state["lat"] = Num(130827) /\ state["lon"] = Num(802707)

(* C19: every payload that flood_vulnerability_node builds from present
   coordinates has exactly one marker, at those coordinates, whose popup is
   the location name when the state has one and "Selected Location" when the
   location is absent (key missing, or None). *)
C19_MarkerPopup ==
    (last.node = "flood_vulnerability" /\ calls_producer(last.in)) =>
        LET md == last.ret["map_data"].v
        IN  /\ Len(md.markers) = 1
            /\ md.markers[1].position = [lat |-> last.in["lat"], lng |-> last.in["lon"]]
            /\ md.markers[1].popup =
                  IF Absent(last.in, "location")
                  THEN Str(<<"S","e","l","e","c","t","e","d"," ","L","o","c","a","t","i","o","n">>)
                  ELSE last.in["location"]

(* C20: a reply that is a message object with content s gives the same
   intent, and the same location and analysis or the same short-circuit, as
   the plain string s. *)
C20_ShapeIndependent ==
    /\ (Answered("intent") /\ last.out.shape = "message") =>
          state = intent_node(last.in, Reply("str", last.out.text))
    /\ (Answered("geo_query") /\ last.out.shape = "message") =>
          state = geo_query_node(last.in, Reply("str", last.out.text))

\* a turn run alone from its request with the given external replies
RECURSIVE Replay(_, _, _)
Replay(at, st, outs) ==
    IF outs = <<>> THEN [pc |-> at, state |-> st]
    ELSE LET r == run_node(at, st, Head(outs))
         IN  Replay(r.pc, r.state, Tail(outs))

RunAlone(req, outs) == Replay("intent", graph_input(InitialState(req)), outs)

(* C17: with the node executions of several turns interleaved in any order,
   each turn has its own state record, and at every step, therefore also at
   its end, the state and position of a turn are those it reaches when run
   alone with the same external replies: no step of another turn shows in
   them. *)
C17_TurnsIsolated ==
    \A t \in DOMAIN turns :
        turns[t].pc # "idle" =>
            LET alone == RunAlone(turns[t].request, turns[t].replies)
            IN  /\ turns[t].state = alone.state
                /\ turns[t].pc = alone.pc

\* a turn has ended after four nodes while another turn, given a different
\* request, has run some of its nodes and not ended
C17_Witness ==
    /\ turns # <<>>
    /\ \E t, u \in DOMAIN turns :
        /\ turns[t].pc = "END" /\ Len(turns[t].replies) = 4
        /\ InFlight(u) /\ Len(turns[u].replies) >= 2
        /\ turns[u].request # turns[t].request
        /\ turns[u].state # turns[t].state

(* C18: when ee_service.initialized is False, the flood-analysis and the
   building-analysis endpoints answer with HTTP 503 and the detail "Earth
   Engine not initialized", and do not invoke get_flood_analysis or
   get_building_analysis of the service. *)
C18_Unavailable ==
    (response.t = "response" /\ ~response.initialized) =>
        /\ response.answer.status = 503
        /\ response.answer.detail = <<Lit(T_not_initialized)>>
        /\ response.answer.calls = NoMethodCalls
        /\ response.answer.requests = 0

-----------------------------------------------------------------------------
(* The scan of geo_query_node, line by line *)

\* the last node execution was geo_query_node on a sentinel-free reply
Scanned == Answered("geo_query") /\ ~HasSentinel(geo_answer(last.out))

ScannedLines == Split(geo_answer(last.out), "\n")

\* location and analysis as the loop holds them after the first n lines
ScanAfter(n) ==
    scan_lines([location |-> None, analysis |-> None], SubSeq(ScannedLines, 1, n))

BeginsWith(line, label) == StartsWith(Lower(line), label)

\* a non-empty line without a label at its start and without "analysis:" or
\* "reply:" inside
IsBare(line) ==
    /\ line # <<>>
    /\ ~BeginsWith(line, T_location) /\ ~BeginsWith(line, T_analysis)
    /\ ~Contains(Lower(line), T_analysis) /\ ~Contains(Lower(line), T_reply)

(* C21: in the scan of a sentinel-free reply, a bare line becomes the
   location if and only if no earlier line has set the location; once an
   earlier line has set it, a bare line leaves it as it is; and a bare line
   never changes analysis.  The state after the node holds what the scan
   holds after the last line. *)
C21_BareLine ==
    Scanned =>
        /\ state["location"] = ScanAfter(Len(ScannedLines)).location
        /\ state["analysis"] = ScanAfter(Len(ScannedLines)).analysis
        /\ \A i \in 1..Len(ScannedLines) :
              LET line   == Strip(ScannedLines[i])
                  before == ScanAfter(i - 1)
                  after  == ScanAfter(i)
              IN  IsBare(line) =>
                    /\ before.location = None => after.location = Str(line)
                    /\ before.location # None => after.location = before.location
                    /\ after.analysis = before.analysis

(* C22: after geo_query_node has scanned a sentinel-free reply, a location
   or an analysis that the state held before the node ran is still present,
   whatever the reply yielded, and the next node is location_helper. *)
C22_NothingLost ==
    Scanned =>
        /\ \A k \in {"location", "analysis"} :
              ~Absent(last.in, k) => ~Absent(state, k)
        /\ pc = "location_helper"

(* C23: in every execution each external call is made at most once: the
   provider once for classification and once for extraction, the geocoder
   once, the producer once; a call that failed is not made again. *)
C23_NoRepeatedCall ==
    /\ \A c \in DOMAIN calls : calls[c] <= 1
    /\ calls.classify = (IF Ran("intent") THEN 1 ELSE 0)
    /\ calls.extract = (IF Ran("geo_query") THEN 1 ELSE 0)
    /\ calls.geocode > 0 => Ran("location_helper")
    /\ calls.producer > 0 => Ran("flood_vulnerability")

\* the geocoder failed, the platform failed, and the turn ended with one call
\* of each collaborator
C23_Witness ==
    /\ pc = "END" /\ seen.geocode = "raise"
    /\ last.node = "flood_vulnerability" /\ last.out.failAt = "stats"
    /\ calls = [classify |-> 1, extract |-> 1, geocode |-> 1, producer |-> 1]

\* the platform failed somewhere during the last execution of
\* flood_vulnerability_node
PlatformFailed ==
    /\ last.node = "flood_vulnerability"
    /\ last.out.failAt \in {"map", "flood", "elevation", "marker", "stats", "center", "url"}

(* C24: for a state with lat and lon present and every way the platform can
   fail (map construction, a layer request, the statistic, the tile URL
   lookup, the producer returning no map object), flood_vulnerability_node
   raises nothing and returns a state whose final_result is a text that is
   not empty and whose map payload is centred on the input lat and lon. *)
C24_PlatformFailureHandled ==
    (PlatformFailed /\ ~Absent(last.in, "lat") /\ ~Absent(last.in, "lon")) =>
        /\ pc = "END"
        /\ last.ret["final_result"].t = "text" /\ last.ret["final_result"].v # <<>>
        /\ last.ret["map_data"].t = "dict"
        /\ last.ret["map_data"].v.center = [lat |-> last.in["lat"], lng |-> last.in["lon"]]
        /\ \A k \in DOMAIN last.in \ {"final_result", "map_object", "map_data"} :
              last.ret[k] = last.in[k]
        /\ state["final_result"] = last.ret["final_result"]

\* the producer returned no map object and the node answered with the error
\* text and the fallback payload
C24_Witness ==
    /\ PlatformFailed /\ last.out.failAt = "map"
    /\ last.ret["map_object"] = None
    /\ last.ret["final_result"] = producer_error_text(last.out.err)
    /\ "error" \in DOMAIN last.ret["map_data"].v

(* C26: flood_vulnerability_node answers "Missing coordinates for flood
   analysis" if and only if lat or lon is absent; for every numeric pair,
   latitude 0 or longitude 0 included, it calls flood_vulnerability and
   centres the payload on those coordinates. *)
C26_MissingIffAbsent ==
    last.node = "flood_vulnerability" =>
        LET absent == Absent(last.in, "lat") \/ Absent(last.in, "lon")
        IN  /\ (last.ret["final_result"] = MissingCoordinates) <=> absent
            /\ ~absent =>
                  /\ last.out.failAt # "notcalled"
                  /\ last.ret["map_data"].v.center =
                        [lat |-> last.in["lat"], lng |-> last.in["lon"]]

\* the entry of the payload with the given name
PayloadLayer(md, name) ==
    CHOOSE l \in {md.layers[i] : i \in DOMAIN md.layers} : l.name = name

\* the layer of the map object that the producer added under the given name
AddedLayer(m, name) ==
    CHOOSE l \in {m.layers[i] : i \in DOMAIN m.layers} : l.name = name

(* C27: in the success payload the entry named "Flood Risk" carries the tile
   URL of the flood-hazard depth layer that flood_vulnerability added to the
   map, and the entry named "Elevation" carries the tile URL of the elevation
   layer it added, not that of another layer. *)
C27_LayerNamesMatch ==
    (last.node = "flood_vulnerability" /\ last.out.failAt = "none"
        /\ "layers" \in DOMAIN last.ret["map_data"].v) =>
        LET md == last.ret["map_data"].v
            m  == last.ret["map_object"]
        IN  /\ PayloadLayer(md, "Flood Risk").url =
                  AddedLayer(m, "Flood Hazard (0-1m depth)").url
            /\ PayloadLayer(md, "Elevation").url = AddedLayer(m, "Elevation (m)").url

(* C28: when a sentinel-free reply has at least one line that begins with
   "location:", the location in the state after geo_query_node is the trimmed
   remainder of the last such line, whatever bare lines stand before or after
   it. *)
C28_LastLabelWins ==
    (Scanned /\ \E i \in DOMAIN ScannedLines :
                    BeginsWith(Strip(ScannedLines[i]), T_location)) =>
        LET labelled == {i \in DOMAIN ScannedLines :
                            BeginsWith(Strip(ScannedLines[i]), T_location)}
            lastOne  == CHOOSE i \in labelled : \A j \in labelled : j <= i
        IN  state["location"] = Str(Strip(AfterFirst(Strip(ScannedLines[lastOne]), ":")))

(* C25: each of get_map_id, get_flood_analysis, get_building_analysis and
   get_satellite_layers, called while initialized is False, fails with the
   error "Earth Engine not initialized", has sent no request to the platform,
   and leaves the flag as it was. *)
C25_UninitializedFailsFirst ==
    (response.t = "call" /\ ~response.initialized) =>
        /\ response.result.t = "raise"
        /\ response.result.e = Exception(<<Lit(T_not_initialized)>>)
        /\ response.result.requests = 0
        /\ ee.requests = 0
        /\ ee.initialized = response.initialized

\* get_satellite_layers was called on a service whose flag is False although
\* the platform would have answered
C25_Witness ==
    /\ response.t = "call" /\ response.op = "get_satellite_layers"
    /\ ~response.initialized /\ ee.config.platform
    /\ response.result.t = "raise" /\ ee.handled >= 2

(* C29: after _initialize_ee the flag is True if and only if a call of
   ee.Initialize succeeded, on each branch: service account with its key
   file, service account whose key file is missing (user authentication as
   fallback), no service account. *)
C29_FlagIffInitialized ==
    ee.phase = "up" => (ee.initialized <=> ee.config.platform)

(* C30: process_natural_query raises nothing; its answer has confidence 0.9
   only when the call of the completion provider succeeded; when the service
   is unavailable or the provider's call failed, the answer is the rule-based
   fallback for the intent extracted from the keywords, with confidence
   0.7. *)
C30_FallbackOnFailure ==
    ai.phase = "up" /\ ai.answer.t # "none" =>
        LET a == ai.answer
        IN  /\ a.t = "return"
            /\ a.v.confidence = 9 => a.out.t = "reply"
            /\ a.out.t # "reply" =>
                  /\ a.v = fallback_processing(a.query, extract_intent(a.query))
                  /\ a.v.confidence = 7

====
